---- MODULE Spec2Model ----
(***************************************************************************)
(* A model of the retro_dungeon runtime core (src/src/game.cpp): the grid  *)
(* map, the dungeon generator, the player and enemy records and the        *)
(* session controller Game with its turn/combat engine.                    *)
(*                                                                         *)
(* One action per public operation of Game.  Each action is the whole      *)
(* operation: handleMovement includes the combat and the level transition  *)
(* it calls.  The pseudo-random generator is a nondeterministic draw from  *)
(* small sets of outcomes.  Undefined behaviour (a null unique_ptr         *)
(* dereference, a vector index out of range) is a nondeterministic choice  *)
(* among the outcomes listed at the place where it happens.                *)
(***************************************************************************)
EXTENDS Integers, Sequences, FiniteSets, TLC

VARIABLES
    m_generator,    \* TRUE when Game::m_generator holds a DungeonGenerator
    m_state,        \* GameState
    m_nextEntityId, \* next EntityId to hand out
    m_player,       \* NULL or the Player record
    m_map,          \* NULL or the Map record
    m_enemies,      \* sequence of Enemy records, in vector order
    m_floorItems,   \* sequence of Item records
    m_messages,     \* sequence of messages, oldest first
    fs,             \* the save file: NoFile or its content
    crashed,        \* TRUE once the process has been killed by a bad access
    last            \* observation of the operation that produced this state

vars == <<m_generator, m_state, m_nextEntityId, m_player, m_map, m_enemies,
          m_floorItems, m_messages, fs, crashed, last>>

(***************************************************************************)
(* Bounds of the model.                                                    *)
(***************************************************************************)
\* Entity ids are handed out without end; operations that would hand out an
\* id above MaxEntityId are not explored.
MaxEntityId == 13
\* The player may walk away from the map without end; positions further than
\* MaxOutside cells outside the grid are not explored.
MaxOutside == 1
\* generate(w, h) is explored for 8 <= w, h <= 8 + MaxDimExtra.
MaxDimExtra == 2
\* Player::move is explored from positions in 0..MaxCoord on both axes.
MaxCoord == 7

(***************************************************************************)
(* Constants of retro_dungeon/game.hpp.                                    *)
(***************************************************************************)
MAP_WIDTH == 6
MAP_HEIGHT == 6
MAX_MESSAGES == 5

NULL == [null |-> TRUE]
NoFile == [exists |-> FALSE]
INVALID_POSITION == <<-1, -1>>

Directions == {"North", "South", "East", "West"}
GameStates == {"MainMenu", "Playing", "GameOver"}
TileTypes == {"Floor", "Wall", "Door", "StairsUp", "StairsDown", "Trap"}
\* The array types[] of Game::spawnEnemies, indexed from 0.
SpawnTypes == <<"Goblin", "Orc", "Skeleton", "Zombie", "Rat", "Spider", "Dragon">>

Max(a, b) == IF a >= b THEN a ELSE b

(***************************************************************************)
(* Entities.                                                               *)
(***************************************************************************)
EnemyStats(t) ==
    CASE t = "Goblin"   -> [name |-> "Goblin",   symbol |-> "g", health |-> 20, maxHealth |-> 20,  attackPower |-> 5,  defense |-> 2]
      [] t = "Orc"      -> [name |-> "Orc",      symbol |-> "o", health |-> 40, maxHealth |-> 40,  attackPower |-> 10, defense |-> 5]
      [] t = "Skeleton" -> [name |-> "Skeleton", symbol |-> "s", health |-> 25, maxHealth |-> 25,  attackPower |-> 8,  defense |-> 3]
      [] t = "Zombie"   -> [name |-> "Zombie",   symbol |-> "z", health |-> 35, maxHealth |-> 35,  attackPower |-> 6,  defense |-> 8]
      [] t = "Dragon"   -> [name |-> "Dragon",   symbol |-> "D", health |-> 0,  maxHealth |-> 200, attackPower |-> 30, defense |-> 20]
      [] t = "Rat"      -> [name |-> "Rat",      symbol |-> "r", health |-> 5,  maxHealth |-> 5,   attackPower |-> 2,  defense |-> 0]
      [] t = "Spider"   -> [name |-> "Spider",   symbol |-> "x", health |-> 15, maxHealth |-> 15,  attackPower |-> 6,  defense |-> 1]

\* Enemy::Enemy(i, t, p)
Enemy(i, t, p) ==
    LET s == EnemyStats(t) IN
    [id |-> i, type |-> t, pos |-> p, expReward |-> 10, goldReward |-> 5,
     name |-> s.name, symbol |-> s.symbol, health |-> s.health,
     maxHealth |-> s.maxHealth, attackPower |-> s.attackPower,
     defense |-> s.defense]

\* Player::Player(i, n, p)
Player(i, n, p) ==
    [id |-> i, name |-> n, pos |-> p, health |-> 100, maxHealth |-> 100,
     attackPower |-> 5, defense |-> 2, level |-> 1, experience |-> 0,
     gold |-> 0, dungeonLevel |-> 1, inventory |-> <<>>]

\* Player::addItem(item): the player afterwards and the value returned.
addItemBelowTwenty(p, item) ==
    IF Len(p.inventory) < 20
    THEN [player |-> [p EXCEPT !.inventory = Append(@, item)], ret |-> TRUE]
    ELSE [player |-> p, ret |-> FALSE]

addItem(p, item) ==
    IF Len(p.inventory) <= 20
    THEN [player |-> [p EXCEPT !.inventory = Append(@, item)], ret |-> TRUE]
    ELSE [player |-> p, ret |-> FALSE]

\* Entity::takeDamage and Entity::isAlive (declared in game.hpp).
takeDamage(e, amt) == [e EXCEPT !.health = e.health - amt]
isAlive(e) == e.health > 0

\* Player::move: the position after a step in direction dir.
move(pos, dir) ==
    CASE dir = "North" -> <<pos[1], pos[2] - 1>>
      [] dir = "South" -> <<pos[1], pos[2] + 1>>
      [] dir = "East"  -> <<pos[1] + 2, pos[2]>>
      [] dir = "West"  -> <<pos[1] - 1, pos[2]>>

(***************************************************************************)
(* Grid map.                                                               *)
(***************************************************************************)
\* The Tile a type stands for: Map::setTile's switch, and Map::Map's default.
TileOf(type) ==
    CASE type = "Floor"      -> [type |-> type, symbol |-> ".", walkable |-> TRUE]
      [] type = "Wall"       -> [type |-> type, symbol |-> "#", walkable |-> FALSE]
      [] type = "Door"       -> [type |-> type, symbol |-> "+", walkable |-> TRUE]
      [] type = "StairsUp"   -> [type |-> type, symbol |-> "<", walkable |-> TRUE]
      [] type = "StairsDown" -> [type |-> type, symbol |-> ">", walkable |-> TRUE]
      [] type = "Trap"       -> [type |-> type, symbol |-> "^", walkable |-> TRUE]

Cells(w, h) == (0 .. w - 1) \X (0 .. h - 1)

\* Map::Map(w, h)
NewMap(w, h) ==
    [width |-> w, height |-> h,
     tiles |-> [c \in Cells(w, h) |-> TileOf("Wall")],
     stairsDown |-> INVALID_POSITION]

isValidPosition(map, x, y) ==
    x >= 0 /\ x < map.width /\ y >= 0 /\ y < map.height

isWalkable(map, x, y) ==
    IF ~isValidPosition(map, x, y) THEN FALSE ELSE map.tiles[<<x, y>>].walkable

setTile(map, x, y, type) ==
    IF ~isValidPosition(map, x, y) THEN map
    ELSE [map EXCEPT !.tiles[<<x, y>>] = TileOf(type)]

setStairsDown(map, p) == [map EXCEPT !.stairsDown = p]

\* Map::clear
clear(map) ==
    [map EXCEPT !.tiles = [c \in DOMAIN map.tiles |-> TileOf("Wall")],
                !.stairsDown = INVALID_POSITION]

(***************************************************************************)
(* Dungeon generator.                                                      *)
(***************************************************************************)
\* The cells the two carving loops of generate visit.
CarvedCells(w, h) ==
    { c \in Cells(w, h) :
        /\ c[1] >= w \div 4 /\ c[1] < w \div 4 + w \div 2 /\ c[1] < w - 1
        /\ c[2] >= h \div 4 /\ c[2] < h \div 4 + h \div 2 /\ c[2] < h - 1 }

\* The values xDist and yDist of generate can return.
StairsRangeOneMore(w, h) ==
    ((w \div 4) .. (w \div 4 + w \div 2)) \X ((h \div 4) .. (h \div 4 + h \div 2))

StairsRange(w, h) ==
    ((w \div 4) .. (w \div 4 + w \div 2 - 1)) \X ((h \div 4) .. (h \div 4 + h \div 2 - 1))

RECURSIVE CarveAll(_, _)
CarveAll(map, cells) ==
    IF cells = {} THEN map
    ELSE LET c == CHOOSE c \in cells : TRUE
         IN CarveAll(setTile(map, c[1], c[2], "Floor"), cells \ {c})

\* DungeonGenerator::generate(width, height), with stairs the position drawn.
generate(w, h, stairs) ==
    LET carved == CarveAll(NewMap(w, h), CarvedCells(w, h))
    IN setStairsDown(setTile(carved, stairs[1], stairs[2], "StairsDown"), stairs)

(***************************************************************************)
(* The random source.  m_rng is drawn from three times per enemy (x, y,    *)
(* type) and twice per generate (the stairs).  The model explores a small  *)
(* set of outcome streams: a stream gives the i-th enemy of one            *)
(* spawnEnemies call the i-th of its type indices and of its cells, both   *)
(* taken cyclically.                                                       *)
(***************************************************************************)
Cyc(seq, i) == seq[((i - 1) % Len(seq)) + 1]

\* Rat, Dragon, Spider, Rat, Dragon, ... in turn on the cells north and west
\* of the spawn point.
MixedStream == [types |-> <<4, 6, 5>>, cells |-> << <<2, 1>>, <<1, 2>> >>]
\* Orcs only, on the cell north of the spawn point.
OrcStream == [types |-> <<1>>, cells |-> << <<2, 1>> >>]

\* What xDist, yDist and typeDist of spawnEnemies can return.
InSpawnRange(stream) ==
    /\ \A k \in 1 .. Len(stream.types) : stream.types[k] \in 0 .. 6
    /\ \A k \in 1 .. Len(stream.cells) :
          /\ stream.cells[k][1] \in 1 .. MAP_WIDTH - 2
          /\ stream.cells[k][2] \in 1 .. MAP_HEIGHT - 2

Streams == { s \in { MixedStream } : InSpawnRange(s) }
OrcStreams == { s \in { OrcStream } : InSpawnRange(s) }

Draws(count, stream) ==
    [i \in 1 .. count |->
        [type |-> Cyc(stream.types, i), pos |-> Cyc(stream.cells, i)]]

\* The stairs positions explored for the fixed-size map of a session.
StairsDraws == { <<2, 1>>, <<1, 2>> } \cap StairsRange(MAP_WIDTH, MAP_HEIGHT)

(***************************************************************************)
(* Game: the session controller.  G is the Game object as a record, so     *)
(* that the private methods are operators from Game to Game.               *)
(***************************************************************************)
(***************************************************************************)
(* Observation of the most recent turn (history, not program state).  It   *)
(* is written by handleMovement and newGame and by nothing else:           *)
(*   op        "handleMovement", "newGame" or "Game" (none yet)            *)
(*   lookups   the positions handleMovement passed to Map::getTile         *)
(*   hit       the id of the enemy handleCombat was called on, 0 if none   *)
(*   hitHealth that enemy's health when handleCombat returned              *)
(*   msgs      the messages passed to addMessage, in call order            *)
(* G(op).obs carries it through the private methods.                       *)
(***************************************************************************)
Obs(op) == [op |-> op, lookups |-> {}, hit |-> 0, hitHealth |-> 0, msgs |-> <<>>]

G(op) ==
     [player |-> m_player, map |-> m_map, enemies |-> m_enemies,
      floorItems |-> m_floorItems, messages |-> m_messages,
      state |-> m_state, nextEntityId |-> m_nextEntityId, obs |-> Obs(op)]

SpawnPoint == <<MAP_WIDTH \div 4 + 1, MAP_HEIGHT \div 4 + 1>>

\* A message: the fixed text, and the name and the number put into it.  Names
\* are sequences of lines (see Names).
Msg(kind, who, n) == [kind |-> kind, who |-> who, n |-> n]

PotionItem ==
    [name |-> "Health Potion", type |-> "Potion", symbol |-> "!",
     value1 |-> 20, value2 |-> 0, cost |-> 25]

\* Game::addMessage
addMessageEvictsNewest(g, msg) ==
    LET pushed == Append(g.messages, msg)
    IN [g EXCEPT !.messages = IF Len(pushed) > MAX_MESSAGES
                               THEN SubSeq(pushed, 1, Len(pushed) - 1)
                               ELSE pushed,
                 !.obs.msgs = Append(@, msg)]

addMessage(g, msg) ==
    LET pushed == Append(g.messages, msg)
    IN [g EXCEPT !.messages = IF Len(pushed) > MAX_MESSAGES THEN Tail(pushed)
                               ELSE pushed,
                 !.obs.msgs = Append(@, msg)]

\* Game::spawnEnemies(count), with the draws of the random source.
spawnEnemies(g, count, draws) ==
    [g EXCEPT
        !.enemies = g.enemies \o
            [i \in 1 .. count |->
                Enemy(g.nextEntityId + i - 1, SpawnTypes[draws[i].type + 1], draws[i].pos)],
        !.nextEntityId = g.nextEntityId + count]

\* Game::spawnItems(count): the position drawn is not stored.
spawnItems(g, count) ==
    [g EXCEPT !.floorItems = g.floorItems \o [i \in 1 .. count |-> PotionItem]]

\* Game::getEnemyAt: the index of the first alive enemy at pos, 0 for nullptr.
getEnemyAt(enemies, pos) ==
    LET hits == { i \in 1 .. Len(enemies) : enemies[i].pos = pos /\ isAlive(enemies[i]) }
    IN IF hits = {} THEN 0 ELSE CHOOSE i \in hits : \A j \in hits : i <= j

\* Game::removeDeadEnemies: erases the first enemy that is not alive.
removeAllDeadEnemies(enemies) == SelectSeq(enemies, isAlive)

removeDeadEnemies(enemies) ==
    LET dead == { i \in 1 .. Len(enemies) : ~isAlive(enemies[i]) }
    IN IF dead = {} THEN enemies
       ELSE LET k == CHOOSE i \in dead : \A j \in dead : i <= j
            IN [i \in 1 .. Len(enemies) - 1 |->
                   IF i < k THEN enemies[i] ELSE enemies[i + 1]]

\* The two damage amounts of Game::handleCombat.
PlayerDamage(player) == player.attackPower
EnemyDamageNoFloor(enemy, player) == enemy.attackPower - player.defense
EnemyDamage(enemy, player) == Max(1, enemy.attackPower - player.defense)

\* Lines 267-268: the rewards for a defeated enemy.
rewardSwapped(player, enemy) ==
    [player EXCEPT !.experience = @ + enemy.goldReward,
                   !.gold = @ + enemy.expReward]
reward(player, enemy) ==
    [player EXCEPT !.experience = @ + enemy.expReward,
                   !.gold = @ + enemy.goldReward]

\* Game::handleCombat(enemy), enemy being g.enemies[i].
handleCombatStaysPlaying(g, i) ==
    LET damage == PlayerDamage(g.player)
        e1 == takeDamage(g.enemies[i], damage)
        g1 == addMessage([g EXCEPT !.enemies[i] = e1,
                                   !.obs.hit = e1.id, !.obs.hitHealth = e1.health],
                         Msg("You hit", <<e1.name>>, damage))
    IN IF isAlive(e1)
       THEN LET enemyDmg == EnemyDamage(e1, g1.player)
                g2 == addMessage([g1 EXCEPT !.player = takeDamage(g1.player, enemyDmg)],
                                 Msg("hits you", <<e1.name>>, enemyDmg))
            IN IF ~isAlive(g2.player)
               THEN addMessage(g2, Msg("You have been slain", <<>>, 0))
               ELSE g2
       ELSE addMessage([g1 EXCEPT !.player = reward(@, e1)],
                       Msg("You defeated", <<e1.name>>, e1.expReward))

handleCombat(g, i) ==
    LET damage == PlayerDamage(g.player)
        e1 == takeDamage(g.enemies[i], damage)
        g1 == addMessage([g EXCEPT !.enemies[i] = e1,
                                   !.obs.hit = e1.id, !.obs.hitHealth = e1.health],
                         Msg("You hit", <<e1.name>>, damage))
    IN IF isAlive(e1)
       THEN LET enemyDmg == EnemyDamage(e1, g1.player)
                g2 == addMessage([g1 EXCEPT !.player = takeDamage(g1.player, enemyDmg)],
                                 Msg("hits you", <<e1.name>>, enemyDmg))
            IN IF ~isAlive(g2.player)
               THEN addMessage([g2 EXCEPT !.state = "GameOver"],
                               Msg("You have been slain", <<>>, 0))
               ELSE g2
       ELSE addMessage([g1 EXCEPT !.player = reward(@, e1)],
                       Msg("You defeated", <<e1.name>>, e1.expReward))

\* Game::nextLevel, with the draws of the random source.
nextLevelKeepsEnemies(g, stairs, stream) ==
    LET dl == g.player.dungeonLevel + 1
        g1 == [g EXCEPT !.player.dungeonLevel = dl,
                        !.map = generate(MAP_WIDTH, MAP_HEIGHT, stairs),
                        !.player.pos = SpawnPoint]
        g2 == spawnItems(spawnEnemies(g1, 5 + dl, Draws(5 + dl, stream)), 3)
    IN addMessage(g2, Msg("You descend", <<>>, dl))

nextLevel(g, stairs, stream) ==
    LET dl == g.player.dungeonLevel + 1
        g1 == [g EXCEPT !.player.dungeonLevel = dl,
                        !.map = generate(MAP_WIDTH, MAP_HEIGHT, stairs),
                        !.player.pos = SpawnPoint,
                        !.enemies = <<>>]
        g2 == spawnItems(spawnEnemies(g1, 5 + dl, Draws(5 + dl, stream)), 3)
    IN addMessage(g2, Msg("You descend", <<>>, dl))

\* Game's fields take the values of g, and g's observation becomes last.
Commit(g) ==
    /\ m_player' = g.player
    /\ m_map' = g.map
    /\ m_enemies' = g.enemies
    /\ m_floorItems' = g.floorItems
    /\ m_messages' = g.messages
    /\ m_state' = g.state
    /\ m_nextEntityId' = g.nextEntityId
    /\ last' = g.obs

\* The process dies (SIGSEGV): no operation follows.
Crash(obs) ==
    /\ crashed' = TRUE
    /\ last' = obs
    /\ UNCHANGED <<m_generator, m_state, m_nextEntityId, m_player, m_map,
                   m_enemies, m_floorItems, m_messages, fs>>

Init ==
    /\ m_generator = FALSE
    /\ m_state = "MainMenu"
    /\ m_nextEntityId = 1
    /\ m_player = NULL
    /\ m_map = NULL
    /\ m_enemies = <<>>
    /\ m_floorItems = <<>>
    /\ m_messages = <<>>
    /\ fs = NoFile
    /\ crashed = FALSE
    /\ last = Obs("Game")

\* Game::initialize
Initialize ==
    /\ ~crashed
    /\ m_generator' = TRUE
    /\ UNCHANGED <<m_state, m_nextEntityId, m_player, m_map, m_enemies,
                   m_floorItems, m_messages, fs, crashed, last>>

\* Game::run
Run ==
    /\ ~crashed
    /\ m_state' = "Playing"
    /\ UNCHANGED <<m_generator, m_nextEntityId, m_player, m_map, m_enemies,
                   m_floorItems, m_messages, fs, crashed, last>>

\* Game::shutdown
Shutdown ==
    /\ ~crashed
    /\ m_player' = NULL
    /\ m_map' = NULL
    /\ m_enemies' = <<>>
    /\ m_messages' = <<>>
    /\ UNCHANGED <<m_generator, m_state, m_nextEntityId, m_floorItems, fs,
                   crashed, last>>

\* Game::newGame(playerName) after the draws stairs and stream.
newGameKeepsLog(g, playerName, stairs, stream) ==
    LET g1 == [g EXCEPT !.player = Player(g.nextEntityId, playerName, <<5, 5>>),
                        !.nextEntityId = g.nextEntityId + 1,
                        !.map = generate(MAP_WIDTH, MAP_HEIGHT, stairs)]
        g2 == [g1 EXCEPT !.player.pos = SpawnPoint]
        g3 == spawnItems(spawnEnemies(g2, 5, Draws(5, stream)), 3)
        g4 == [g3 EXCEPT !.state = "Playing"]
    IN addMessage(g4, Msg("Welcome to the dungeon", playerName, 0))

newGame(g, playerName, stairs, stream) ==
    LET g1 == [g EXCEPT !.player = Player(g.nextEntityId, playerName, <<5, 5>>),
                        !.nextEntityId = g.nextEntityId + 1,
                        !.map = generate(MAP_WIDTH, MAP_HEIGHT, stairs)]
        g2 == [g1 EXCEPT !.player.pos = SpawnPoint]
        g3 == spawnItems(spawnEnemies(g2, 5, Draws(5, stream)), 3)
        g4 == [g3 EXCEPT !.state = "Playing", !.messages = <<>>]
    IN addMessage(g4, Msg("Welcome to the dungeon", playerName, 0))

\* A player name is the sequence of its lines: one line unless the name holds
\* a line break.
Names == { <<"Hero">> }

\* Game::newGame(playerName) for the names of `names`.
NewGameNamed(names, streams, maxId) ==
    /\ ~crashed
    /\ \/ /\ ~m_generator            \* m_generator-> on a null unique_ptr
          /\ Crash(Obs("newGame"))
       \/ /\ m_generator
          /\ m_nextEntityId + 5 <= maxId
          /\ \E playerName \in names, stairs \in StairsDraws, stream \in streams :
                Commit(newGame(G("newGame"), playerName, stairs, stream))
          /\ UNCHANGED <<m_generator, fs, crashed>>

NewGame(streams, maxId) == NewGameNamed(Names, streams, maxId)

(***************************************************************************)
(* The save file.  Its content is a sequence of lines; a line is the text  *)
(* it holds or, when it was written from integers, those integers.         *)
(***************************************************************************)
TextLine(t) == [text |-> t, nums |-> <<>>]
NumLine(ns) == [text |-> "", nums |-> ns]
FileOf(lines) == [exists |-> TRUE, lines |-> lines]

\* What Game::saveGame writes for player p (lines 170-174).
SaveLines(p) ==
    [i \in 1 .. Len(p.name) |-> TextLine(p.name[i])] \o
    << NumLine(<<p.health, p.maxHealth, p.attackPower, p.defense>>),
       NumLine(<<p.level, p.experience, p.gold, p.dungeonLevel>>) >>

\* std::getline(file, name): the first line, empty at the end of the file.
ReadName(lines) == IF lines = <<>> THEN <<"">> ELSE <<lines[1].text>>

\* The integers operator>> can extract from line i on: blank lines are
\* skipped, and the first text that is no integer ends the extraction.
RECURSIVE ReadInts(_, _)
ReadInts(lines, i) ==
    IF i > Len(lines) THEN <<>>
    ELSE IF lines[i].nums # <<>> THEN lines[i].nums \o ReadInts(lines, i + 1)
    ELSE IF lines[i].text = "" THEN ReadInts(lines, i + 1)
    ELSE <<>>

\* Values an int that was never assigned may hold: any int.  The model
\* explores two, both positive: with an attackPower of 0 or less a fight
\* never ends.
GarbageInts == { 3, 9 }

\* hp, maxHp, atk, def, lvl, exp, gold, dlvl after line 187: the integers
\* extracted; the first failed extraction stores 0; the variables after it
\* are never assigned.
ReadStats(lines, garbage) ==
    LET toks == ReadInts(lines, 2)
    IN [j \in 1 .. 8 |->
           IF j <= Len(toks) THEN toks[j]
           ELSE IF j = Len(toks) + 1 THEN 0
           ELSE garbage]

\* Game::loadGame after the file was opened and read, up to line 197.
LoadedPlayer(id, lines, garbage) ==
    LET v == ReadStats(lines, garbage)
    IN [Player(id, ReadName(lines), <<5, 5>>) EXCEPT
           !.health = v[1], !.maxHealth = v[2], !.attackPower = v[3],
           !.defense = v[4], !.level = v[5], !.experience = v[6],
           !.gold = v[7], !.dungeonLevel = v[8]]

\* Game::loadGame from line 189 on, with the draws stairs and stream.
loadGame(g, lines, garbage, stairs, stream) ==
    LET g1 == [g EXCEPT !.player = LoadedPlayer(g.nextEntityId, lines, garbage),
                        !.nextEntityId = g.nextEntityId + 1,
                        !.map = generate(MAP_WIDTH, MAP_HEIGHT, stairs)]
        g2 == spawnEnemies(g1, 5, Draws(5, stream))
    IN [g2 EXCEPT !.state = "Playing"]

\* Game::saveGame(filename)
SaveGame ==
    /\ ~crashed
    /\ \/ UNCHANGED vars             \* the file cannot be opened: returns false
       \/ /\ m_player = NULL         \* opened and truncated, then m_player->name
          /\ fs' = FileOf(<<>>)
          /\ crashed' = TRUE
          /\ UNCHANGED <<m_generator, m_state, m_nextEntityId, m_player, m_map,
                         m_enemies, m_floorItems, m_messages, last>>
       \/ /\ m_player # NULL
          /\ fs' = FileOf(SaveLines(m_player))
          /\ UNCHANGED <<m_generator, m_state, m_nextEntityId, m_player, m_map,
                         m_enemies, m_floorItems, m_messages, crashed, last>>

\* Game::loadGame(filename)
LoadGame(streams, maxId) ==
    /\ ~crashed
    /\ \/ UNCHANGED vars             \* the file cannot be opened: returns false
       \/ /\ fs.exists
          /\ ~m_generator            \* m_generator-> on a null unique_ptr
          /\ Crash(last)
       \/ /\ fs.exists
          /\ m_generator
          /\ m_nextEntityId + 5 <= maxId
          /\ \E garbage \in GarbageInts, stairs \in StairsDraws, stream \in streams :
                /\ Commit([loadGame(G("loadGame"), fs.lines, garbage, stairs, stream)
                              EXCEPT !.obs = last])
          /\ UNCHANGED <<m_generator, fs, crashed>>

\* Game::update
Update ==
    /\ ~crashed
    /\ m_enemies' = removeDeadEnemies(m_enemies)
    /\ UNCHANGED <<m_generator, m_state, m_nextEntityId, m_player, m_map,
                   m_floorItems, m_messages, fs, crashed, last>>

\* The positions of the walk the model explores.
Explored(pos) ==
    /\ pos[1] \in -MaxOutside .. MAP_WIDTH - 1 + MaxOutside
    /\ pos[2] \in -MaxOutside .. MAP_HEIGHT - 1 + MaxOutside

\* Lines 242-245 of Game::handleMovement: combat with the enemy at the
\* player's position, if there is one.
combatAt(g) ==
    LET i == getEnemyAt(g.enemies, g.player.pos)
    IN IF i # 0 THEN handleCombat(g, i) ELSE g

\* Lines 247-249: the level transition when the tile read is StairsDown.
Descend(g, type, streams, maxId) ==
    IF type = "StairsDown"
    THEN /\ g.nextEntityId + 5 + g.player.dungeonLevel <= maxId
         /\ \E stairs \in StairsDraws, stream \in streams :
               Commit(nextLevel(g, stairs, stream))
    ELSE Commit(g)

\* Game::handleMovement(dir)
HandleMovement(dir, streams, maxId) ==
    /\ ~crashed
    /\ IF m_player = NULL \/ m_map = NULL
       THEN UNCHANGED vars
       ELSE LET dest == move(m_player.pos, dir)
                g1 == [G("handleMovement") EXCEPT !.player.pos = dest,
                                                   !.obs.lookups = {dest}]
            IN /\ Explored(dest)
               /\ IF isValidPosition(m_map, dest[1], dest[2])
                  THEN /\ Descend(combatAt(g1), m_map.tiles[dest].type, streams, maxId)
                       /\ UNCHANGED <<m_generator, fs, crashed>>
                  ELSE \* isWalkable is false and m_tiles[y][x] is read out of
                       \* range, at line 238 and again at line 247: the
                       \* process is killed, or the reads return whatever
                       \* lies there.
                       \/ Crash(g1.obs)
                       \/ /\ \E garbage \in TileTypes : Descend(combatAt(g1), garbage, streams, maxId)
                          /\ UNCHANGED <<m_generator, fs, crashed>>

Next ==
    \/ Initialize
    \/ NewGame(Streams, MaxEntityId)
    \/ \E dir \in Directions : HandleMovement(dir, Streams, MaxEntityId)
    \/ Update
    \/ Run
    \/ Shutdown

Spec == Init /\ [][Next]_vars

(***************************************************************************)
(* One session against Orcs: the random source draws Orcs only and the     *)
(* ids suffice for one newGame, so that the player can be slain.           *)
(***************************************************************************)
\* The ids of one newGame or loadGame: the player and five enemies.
MaxEntityIdOne == 6

NextOrc ==
    \/ Initialize
    \/ NewGame(OrcStreams, MaxEntityIdOne)
    \/ \E dir \in Directions : HandleMovement(dir, OrcStreams, MaxEntityIdOne)
    \/ Update
    \/ Run
    \/ Shutdown

SpecOrc == Init /\ [][NextOrc]_vars

(***************************************************************************)
(* Combat for a range of player stats: a session loaded from a save file   *)
(* that holds them, and played.                                            *)
(***************************************************************************)
CombatSaves ==
    { FileOf(<< TextLine("Hero"), NumLine(<<hp, 100, atk, def>>), NumLine(<<1, 0, 0, 1>>) >>) :
        hp \in {1, 30}, atk \in {1, 5, 20}, def \in {0, 6, 9} }

InitCombat ==
    /\ m_generator = FALSE
    /\ m_state = "MainMenu"
    /\ m_nextEntityId = 1
    /\ m_player = NULL
    /\ m_map = NULL
    /\ m_enemies = <<>>
    /\ m_floorItems = <<>>
    /\ m_messages = <<>>
    /\ fs \in CombatSaves
    /\ crashed = FALSE
    /\ last = Obs("Game")

NextCombat ==
    \/ Initialize
    \/ LoadGame(Streams, MaxEntityIdOne)
    \/ \E dir \in Directions : HandleMovement(dir, Streams, MaxEntityIdOne)

SpecCombat == InitCombat /\ [][NextCombat]_vars

(***************************************************************************)
(* Player::move alone: a player at any position of a square, moved in any  *)
(* direction.  last holds the two most recent steps.                       *)
(***************************************************************************)
InitMove ==
    /\ m_generator = FALSE
    /\ m_state = "MainMenu"
    /\ m_nextEntityId = 2
    /\ \E p \in (0 .. MaxCoord) \X (0 .. MaxCoord) : m_player = Player(1, <<"Hero">>, p)
    /\ m_map = NULL
    /\ m_enemies = <<>>
    /\ m_floorItems = <<>>
    /\ m_messages = <<>>
    /\ fs = NoFile
    /\ crashed = FALSE
    /\ last = [op |-> "Player", dir |-> "", from |-> <<0, 0>>,
               prevDir |-> "", prevFrom |-> <<0, 0>>]

\* m_player->move(dir)
Move(dir) ==
    /\ move(m_player.pos, dir) \in (-2 .. MaxCoord + 2) \X (-2 .. MaxCoord + 2)
    /\ m_player' = [m_player EXCEPT !.pos = move(m_player.pos, dir)]
    /\ last' = [op |-> "move", dir |-> dir, from |-> m_player.pos,
                prevDir |-> last.dir, prevFrom |-> last.from]
    /\ UNCHANGED <<m_generator, m_state, m_nextEntityId, m_map, m_enemies,
                   m_floorItems, m_messages, fs, crashed>>

NextMove == \E dir \in Directions : Move(dir)

SpecMove == InitMove /\ [][NextMove]_vars

(***************************************************************************)
(* DungeonGenerator::generate alone, for every width and height from 8 to  *)
(* 8 + MaxDimExtra and every stairs position the random source can draw.   *)
(***************************************************************************)
Generate ==
    /\ \E w \in 8 .. 8 + MaxDimExtra, h \in 8 .. 8 + MaxDimExtra :
          \E stairs \in StairsRange(w, h) : m_map' = generate(w, h, stairs)
    /\ UNCHANGED <<m_generator, m_state, m_nextEntityId, m_player, m_enemies,
                   m_floorItems, m_messages, fs, crashed, last>>

NextGen == Generate

SpecGen == Init /\ [][NextGen]_vars

(***************************************************************************)
(* The Map alone, of the size of a session's map: constructed or           *)
(* generated, then edited with setTile at the stairs, at a corner of the   *)
(* room, at the origin and outside the grid, and cleared.                  *)
(***************************************************************************)
\* Map::Map(MAP_WIDTH, MAP_HEIGHT)
Construct ==
    /\ m_map' = NewMap(MAP_WIDTH, MAP_HEIGHT)
    /\ UNCHANGED <<m_generator, m_state, m_nextEntityId, m_player, m_enemies,
                   m_floorItems, m_messages, fs, crashed, last>>

\* The positions at which setTile is explored on map.
SetTileCells(map) ==
    { map.stairsDown, <<map.width \div 4, map.height \div 4>>, <<0, 0>>,
      <<map.width, map.height>> }

\* m_map->setTile(x, y, type)
SetTile ==
    /\ m_map # NULL
    /\ \E c \in SetTileCells(m_map), type \in TileTypes :
          m_map' = setTile(m_map, c[1], c[2], type)
    /\ UNCHANGED <<m_generator, m_state, m_nextEntityId, m_player, m_enemies,
                   m_floorItems, m_messages, fs, crashed, last>>

\* m_map->clear()
Clear ==
    /\ m_map # NULL
    /\ m_map' = clear(m_map)
    /\ UNCHANGED <<m_generator, m_state, m_nextEntityId, m_player, m_enemies,
                   m_floorItems, m_messages, fs, crashed, last>>

\* m_generator->generate(MAP_WIDTH, MAP_HEIGHT)
GenerateMap ==
    /\ \E stairs \in StairsRange(MAP_WIDTH, MAP_HEIGHT) :
          m_map' = generate(MAP_WIDTH, MAP_HEIGHT, stairs)
    /\ UNCHANGED <<m_generator, m_state, m_nextEntityId, m_player, m_enemies,
                   m_floorItems, m_messages, fs, crashed, last>>

NextMap == Construct \/ GenerateMap \/ SetTile \/ Clear

SpecMap == Init /\ [][NextMap]_vars

(***************************************************************************)
(* Sessions that are saved and loaded: a new game under a one-line or a    *)
(* two-line name, played along the column of the spawn point, saved, shut  *)
(* down, loaded.                                                           *)
(***************************************************************************)
\* The ids of two sessions: a newGame and a loadGame, or two of either.
MaxEntityIdTwo == 12

\* "Hero", and "Sir\nHero": a name that holds a line break.
SaveNames == { <<"Hero">>, <<"Sir", "Hero">> }

\* The directions of the walk: north of the spawn point are enemies.
SaveDirections == { "North", "South" }

NextSave ==
    \/ Initialize
    \/ NewGameNamed(SaveNames, Streams, MaxEntityIdTwo)
    \/ SaveGame
    \/ LoadGame(Streams, MaxEntityIdTwo)
    \/ \E dir \in SaveDirections : HandleMovement(dir, Streams, MaxEntityIdTwo)
    \/ Update
    \/ Shutdown

SpecSave == Init /\ [][NextSave]_vars

(***************************************************************************)
(* Player::addItem alone: a player at any position of a square, given      *)
(* potions one by one.  last holds the inventory before the call and the   *)
(* value returned.                                                         *)
(***************************************************************************)
\* addItem is called at most MaxAddCalls times.
MaxAddCalls == 24

InitInv ==
    /\ m_generator = FALSE
    /\ m_state = "MainMenu"
    /\ m_nextEntityId = 2
    /\ \E p \in (0 .. MaxCoord) \X (0 .. MaxCoord) : m_player = Player(1, <<"Hero">>, p)
    /\ m_map = NULL
    /\ m_enemies = <<>>
    /\ m_floorItems = <<>>
    /\ m_messages = <<>>
    /\ fs = NoFile
    /\ crashed = FALSE
    /\ last = [op |-> "Player", calls |-> 0, before |-> <<>>, ret |-> FALSE]

\* m_player->addItem(item)
AddItem ==
    /\ last.calls < MaxAddCalls
    /\ \E item \in { PotionItem } :
          /\ m_player' = addItem(m_player, item).player
          /\ last' = [op |-> "addItem", calls |-> last.calls + 1,
                      before |-> m_player.inventory,
                      ret |-> addItem(m_player, item).ret]
    /\ UNCHANGED <<m_generator, m_state, m_nextEntityId, m_map, m_enemies,
                   m_floorItems, m_messages, fs, crashed>>

NextInv == AddItem

SpecInv == InitInv /\ [][NextInv]_vars

(***************************************************************************)
(* Play only: sessions against Orcs that are started with newGame and      *)
(* advanced with handleMovement, along the column of the spawn point, and  *)
(* update.                                                                 *)
(***************************************************************************)
NextPlay ==
    \/ Initialize
    \/ NewGame(OrcStreams, MaxEntityId)
    \/ \E dir \in SaveDirections : HandleMovement(dir, OrcStreams, MaxEntityId)
    \/ Update

SpecPlay == Init /\ [][NextPlay]_vars

(***************************************************************************)
(* Claims.                                                                 *)
(***************************************************************************)
\* A handleMovement(dir) step of a session that has a player and a map and
\* is still running; dest is where the step takes the player.
InSession == m_player # NULL /\ m_map # NULL /\ ~crashed
Dest(dir) == move(m_player.pos, dir)
Turn(dir) ==
    /\ last'.op = "handleMovement" /\ last'.lookups = {Dest(dir)}
    /\ HandleMovement(dir, Streams, MaxEntityId)

\* C1: when handleMovement brings the player onto a cell occupied by an alive
\* enemy, combat is with the first alive enemy of that cell: its health
\* decreases by exactly the player's attackPower, and if it is still above 0
\* the player's health decreases by exactly max(1, enemy.attackPower -
\* player.defense); otherwise the player's health is unchanged.
C1_CombatExchange ==
    [][\A dir \in Directions :
          LET i == getEnemyAt(m_enemies, Dest(dir))
          IN (InSession /\ i # 0 /\ Turn(dir)) =>
                /\ last'.hit = m_enemies[i].id
                /\ last'.hitHealth = m_enemies[i].health - m_player.attackPower
                /\ \A j \in 1 .. Len(m_enemies') :
                      m_enemies'[j].id = m_enemies[i].id =>
                         m_enemies'[j].health = m_enemies[i].health - m_player.attackPower
                /\ m_player'.health =
                      IF m_enemies[i].health - m_player.attackPower > 0
                      THEN m_player.health
                              - Max(1, m_enemies[i].attackPower - m_player.defense)
                      ELSE m_player.health
      ]_vars

\* C1 witness: an enemy survived the player's hit and retaliated with the
\* floor damage of 1 (its attackPower does not exceed the player's defense).
C1_Witness ==
    /\ last.op = "handleMovement" /\ last.hit # 0 /\ last.hitHealth > 0
    /\ Len(last.msgs) >= 2
    /\ last.msgs[2].kind = "hits you" /\ last.msgs[2].n = 1

\* C2: Player::move changes exactly one axis by the direction's delta (2 for
\* East and for West, 1 for North and for South), and a move followed by the
\* move in the opposite direction returns to the original position.
Opposite(dir) ==
    CASE dir = "North" -> "South" [] dir = "South" -> "North"
      [] dir = "East" -> "West"   [] dir = "West" -> "East"
      [] OTHER -> "none"
ClaimedDelta(dir) ==
    CASE dir = "North" -> <<0, -1>> [] dir = "South" -> <<0, 1>>
      [] dir = "East" -> <<2, 0>>   [] dir = "West" -> <<-2, 0>>
C2_MoveDeltaAndInverse ==
    last.op = "move" =>
       /\ m_player.pos = <<last.from[1] + ClaimedDelta(last.dir)[1],
                           last.from[2] + ClaimedDelta(last.dir)[2]>>
       /\ last.prevDir = Opposite(last.dir) => m_player.pos = last.prevFrom

\* A newGame step that returns.
NewGameStep ==
    /\ last'.op = "newGame" /\ ~crashed'
    /\ NewGame(Streams, MaxEntityId)

\* C3: after any call to newGame the live enemy set contains exactly 5
\* enemies, every one of them alive.
C3_FiveAliveAfterNewGame ==
    [][NewGameStep =>
          /\ Len(m_enemies') = 5
          /\ \A j \in 1 .. Len(m_enemies') : m_enemies'[j].health > 0
      ]_vars

\* C4: after any call to newGame the player is at the spawn offset
\* (MAP_WIDTH/4+1, MAP_HEIGHT/4+1) with dungeonLevel 1, the state is Playing
\* and the message log holds exactly one entry, the welcome message.
C4_NewGameResets ==
    [][NewGameStep =>
          /\ m_player' # NULL
          /\ m_player'.pos = <<MAP_WIDTH \div 4 + 1, MAP_HEIGHT \div 4 + 1>>
          /\ m_player'.dungeonLevel = 1
          /\ m_state' = "Playing"
          /\ Len(m_messages') = 1
          /\ m_messages'[1].kind = "Welcome to the dungeon"
          /\ m_messages'[1].who = m_player'.name
      ]_vars

\* C4 witness: a second newGame, called in a session that had fought and had
\* been slain or had logged several messages, has reset the log.
C4_Witness ==
    /\ last.op = "newGame" /\ ~crashed /\ m_player # NULL
    /\ m_player.id > 1
    /\ \E j \in 1 .. Len(m_enemies) : m_enemies[j].health \notin {0, m_enemies[j].maxHealth}
    /\ Len(m_messages) = 1 /\ m_messages[1].kind = "Welcome to the dungeon"

\* C5: a handleMovement whose destination tile is StairsDown increments
\* dungeonLevel by exactly 1, replaces the map by a generated one and leaves
\* exactly 5 + dungeonLevel enemies, all spawned by this step; one whose
\* destination tile is not StairsDown leaves dungeonLevel and the map
\* unchanged.
C5_LevelTransition ==
    [][\A dir \in Directions :
          (/\ InSession
           /\ isValidPosition(m_map, Dest(dir)[1], Dest(dir)[2])
           /\ Turn(dir)) =>
             IF m_map.tiles[Dest(dir)].type = "StairsDown"
             THEN /\ m_player'.dungeonLevel = m_player.dungeonLevel + 1
                  /\ \E stairs \in StairsRange(MAP_WIDTH, MAP_HEIGHT) :
                        m_map' = generate(MAP_WIDTH, MAP_HEIGHT, stairs)
                  /\ Len(m_enemies') = 5 + m_player'.dungeonLevel
                  /\ \A j \in 1 .. Len(m_enemies') :
                        /\ m_enemies'[j].id >= m_nextEntityId
                        /\ \A k \in 1 .. Len(m_enemies) : m_enemies'[j].id # m_enemies[k].id
             ELSE /\ m_player'.dungeonLevel = m_player.dungeonLevel
                  /\ m_map' = m_map
      ]_vars

\* C5 witness: a turn fought an enemy on the stairs cell and then descended
\* to level 2.
C5_Witness ==
    /\ last.op = "handleMovement" /\ last.hit # 0 /\ ~crashed
    /\ m_player # NULL /\ m_player.dungeonLevel = 2
    /\ Len(last.msgs) >= 1 /\ last.msgs[Len(last.msgs)].kind = "You descend"
    /\ Len(m_enemies) = 7

\* C6: every tile lookup of handleMovement is at a position valid for the
\* map: 0 <= x < width and 0 <= y < height.
C6_LookupsInBounds ==
    \A p \in last.lookups :
        /\ 0 <= p[1] /\ p[1] < MAP_WIDTH
        /\ 0 <= p[2] /\ p[2] < MAP_HEIGHT

\* C7: once the state is GameOver only newGame (or loadGame) changes it,
\* and while the player's health stays above 0 a handleMovement keeps the
\* state Playing.
C7_GameOverTerminal ==
    [][/\ (m_state = "GameOver" /\ m_state' # "GameOver")
             => NewGame(OrcStreams, MaxEntityIdOne)
       /\ \A dir \in Directions :
             (/\ InSession /\ m_state = "Playing" /\ Turn(dir)
              /\ m_player'.health > 0) => m_state' = "Playing"
      ]_vars

\* C8: if the player's hit brings the enemy's health to 0 or below there is
\* no retaliation: the player's health and the state are unchanged and
\* experience and gold grow by the enemy's expReward and goldReward; if the
\* enemy survives, experience and gold are unchanged.
C8_KillRewards ==
    [][\A dir \in Directions :
          LET i == getEnemyAt(m_enemies, Dest(dir))
          IN (InSession /\ i # 0 /\ Turn(dir)) =>
                IF m_enemies[i].health - m_player.attackPower <= 0
                THEN /\ m_player'.health = m_player.health
                     /\ m_state' = m_state
                     /\ m_player'.experience = m_player.experience + m_enemies[i].expReward
                     /\ m_player'.gold = m_player.gold + m_enemies[i].goldReward
                ELSE /\ m_player'.experience = m_player.experience
                     /\ m_player'.gold = m_player.gold
      ]_vars

\* C8 witness: the player has defeated an enemy in the last turn.
C8_Witness ==
    /\ last.op = "handleMovement" /\ last.hit # 0 /\ last.hitHealth <= 0
    /\ m_player # NULL /\ m_player.experience >= 10 /\ m_player.gold >= 5

\* The last n entries of seq.
KeepLast(seq, n) ==
    IF Len(seq) <= n THEN seq ELSE SubSeq(seq, Len(seq) - n + 1, Len(seq))

\* C9: the message log never holds more than 5 entries, and a turn leaves
\* in it the last 5 of the old entries followed by the messages of the
\* turn, in order (the oldest are evicted first).
C9_MessageLogFifo ==
    [][/\ Len(m_messages') <= 5
       /\ \A dir \in Directions :
             (InSession /\ Turn(dir)) =>
                m_messages' = KeepLast(m_messages \o last'.msgs, 5)
      ]_vars

\* C9 witness: a turn appended three messages to a log and evicted the
\* welcome message and others.
C9_Witness ==
    /\ last.op = "handleMovement" /\ Len(last.msgs) = 3
    /\ Len(m_messages) = 5
    /\ m_messages[1].kind # "Welcome to the dungeon"
    /\ SubSeq(m_messages, 3, 5) = last.msgs

\* The cells generate carves: x in [w/4, w/4 + w/2), y in [h/4, h/4 + h/2).
Room(w, h) ==
    { c \in Cells(w, h) :
        /\ w \div 4 <= c[1] /\ c[1] < w \div 4 + w \div 2
        /\ h \div 4 <= c[2] /\ c[2] < h \div 4 + h \div 2 }

Neighbours(c) ==
    { <<c[1] + 1, c[2]>>, <<c[1] - 1, c[2]>>, <<c[1], c[2] + 1>>, <<c[1], c[2] - 1>> }

\* The walkable cells 4-connected to the cells of `seen`.
RECURSIVE Reach(_, _)
Reach(map, seen) ==
    LET more == { c \in Cells(map.width, map.height) \ seen :
                     /\ map.tiles[c].walkable
                     /\ \E d \in seen : c \in Neighbours(d) }
    IN IF more = {} THEN seen ELSE Reach(map, seen \cup more)

\* C10: generate(w, h) with w, h >= 8 returns a map with exactly one
\* StairsDown cell, the one recorded as stairsDown; it lies in the room,
\* whose cells are walkable and 4-connected; every cell outside the room,
\* the outer border included, is a Wall that is not walkable.
C10_GenerateShape ==
    m_map # NULL =>
       LET w == m_map.width
           h == m_map.height
           stairsCells == { c \in Cells(w, h) : m_map.tiles[c].type = "StairsDown" }
       IN /\ stairsCells = { m_map.stairsDown }
          /\ m_map.stairsDown \in Room(w, h)
          /\ Room(w, h) # {}
          /\ \A c \in Room(w, h) : m_map.tiles[c].walkable
          /\ Reach(m_map, { m_map.stairsDown }) = Room(w, h)
          /\ \A c \in Cells(w, h) \ Room(w, h) :
                m_map.tiles[c] = [type |-> "Wall", symbol |-> "#", walkable |-> FALSE]
          /\ \A c \in Cells(w, h) :
                (c[1] \in {0, w - 1} \/ c[2] \in {0, h - 1}) => c \notin Room(w, h)

\* C10 witness: a 9 x 10 map whose stairs are in the far corner of the room.
C10_Witness ==
    /\ m_map # NULL /\ m_map.width = 9 /\ m_map.height = 10
    /\ m_map.stairsDown = <<9 \div 4 + 9 \div 2 - 1, 10 \div 4 + 10 \div 2 - 1>>
    /\ m_map.tiles[m_map.stairsDown].type = "StairsDown"

\* C11: whatever map operations were applied (construction, generation,
\* setTile, clear), the map's stairsDown is the unset sentinel or the
\* position of a cell of type StairsDown.
C11_StairsDownPointsAtStairs ==
    m_map # NULL =>
       \/ m_map.stairsDown = INVALID_POSITION
       \/ /\ isValidPosition(m_map, m_map.stairsDown[1], m_map.stairsDown[2])
          /\ m_map.tiles[m_map.stairsDown].type = "StairsDown"

\* C12: after shutdown(), from any session state, the controller is back in
\* its pre-session condition: no player, no map, no enemies, no floor items,
\* no messages, and state MainMenu.
C12_ShutdownRestoresPreSession ==
    [][Shutdown =>
          /\ m_player' = NULL
          /\ m_map' = NULL
          /\ m_enemies' = <<>>
          /\ m_floorItems' = <<>>
          /\ m_messages' = <<>>
          /\ m_state' = "MainMenu"
      ]_vars

\* C13: while there is no player or no map, handleMovement, update and
\* saveGame are silent no-ops: they leave the session state unchanged and
\* do not access the absent player or map (the process is not killed).
C13_NoOpWithoutSession ==
    [][((m_player = NULL \/ m_map = NULL) /\ ~crashed
        /\ \/ SaveGame
           \/ Update
           \/ \E dir \in SaveDirections : HandleMovement(dir, Streams, MaxEntityIdTwo))
       => /\ ~crashed'
          /\ UNCHANGED <<m_generator, m_state, m_nextEntityId, m_player, m_map,
                         m_enemies, m_floorItems, m_messages>>
      ]_vars

\* A loadGame step that returns true.
LoadStep ==
    /\ m_nextEntityId' = m_nextEntityId + 6 /\ ~crashed'
    /\ LoadGame(Streams, MaxEntityIdTwo)

\* C14: when the file holds what saveGame wrote for the current player, a
\* successful loadGame of it yields a player whose name and eight numeric
\* fields equal those of the saved player.
C14_SaveLoadRoundTrip ==
    [][(/\ m_player # NULL /\ fs = FileOf(SaveLines(m_player))
        /\ LoadStep)
       => /\ m_player'.name = m_player.name
          /\ m_player'.health = m_player.health
          /\ m_player'.maxHealth = m_player.maxHealth
          /\ m_player'.attackPower = m_player.attackPower
          /\ m_player'.defense = m_player.defense
          /\ m_player'.level = m_player.level
          /\ m_player'.experience = m_player.experience
          /\ m_player'.gold = m_player.gold
          /\ m_player'.dungeonLevel = m_player.dungeonLevel
      ]_vars

\* C15: after a successful loadGame the live enemy set consists only of the
\* 5 enemies that load spawned: no enemy of an earlier session or level
\* remains.
C15_LoadSpawnsFreshEnemies ==
    [][LoadStep =>
          /\ Len(m_enemies') = 5
          /\ \A j \in 1 .. Len(m_enemies') : m_enemies'[j].id > m_nextEntityId
      ]_vars

\* C16: an enemy whose health reached 0 or less in a handleMovement is no
\* longer in the live enemy set after the update tick of that turn,
\* whatever other enemies are in the set.
C16_DeadEnemyGoneAfterTurn ==
    [][(/\ last.op = "handleMovement" /\ last.hit # 0 /\ last.hitHealth <= 0
        /\ Update)
       => \A j \in 1 .. Len(m_enemies') : m_enemies'[j].id # last.hit
      ]_vars

\* C17: the inventory never holds more than 21 items; addItem appends the
\* item and returns true exactly when the inventory held fewer than 21
\* items, and otherwise returns false and leaves the inventory unchanged.
C17_InventoryCapacity ==
    /\ Len(m_player.inventory) <= 21
    /\ last.op = "addItem" =>
          /\ last.ret = (Len(last.before) < 21)
          /\ last.ret => /\ Len(m_player.inventory) = Len(last.before) + 1
                         /\ SubSeq(m_player.inventory, 1, Len(last.before)) = last.before
                         /\ m_player.inventory[Len(m_player.inventory)] = PotionItem
          /\ ~last.ret => m_player.inventory = last.before

\* C17 witness: addItem was refused on a full inventory of 21 items.
C17_Witness ==
    /\ last.op = "addItem" /\ ~last.ret
    /\ Len(last.before) = 21 /\ Len(m_player.inventory) = 21

\* A step that starts a session or a level: a newGame that returns, a
\* successful loadGame, or a handleMovement that descends.
LevelStart ==
    \/ LoadStep
    \/ /\ last'.op = "newGame" /\ ~crashed'
       /\ NewGameNamed(SaveNames, Streams, MaxEntityIdTwo)
    \/ /\ m_player # NULL /\ m_map # NULL /\ ~crashed'
       /\ last'.op = "handleMovement" /\ m_map' # m_map
       /\ \E dir \in SaveDirections : HandleMovement(dir, Streams, MaxEntityIdTwo)

\* C18: after newGame, after a successful loadGame and after every level
\* transition the player's position is a walkable cell of the carved room
\* of the current map, and the map's StairsDown cell is reachable from it
\* through walkable cells.
C18_StartsInsideRoom ==
    [][LevelStart =>
          /\ m_player'.pos \in Room(m_map'.width, m_map'.height)
          /\ m_map'.tiles[m_player'.pos].walkable
          /\ m_map'.stairsDown \in Reach(m_map', { m_player'.pos })
      ]_vars

\* C19: in a session started with newGame and advanced with handleMovement
\* and update, the state is GameOver if and only if the player's health is
\* 0 or less, and GameOver is entered only by a handleMovement in which an
\* enemy's retaliation brings the health of a living player to 0 or less.
C19_GameOverIffDead ==
    [][/\ m_player' # NULL =>
             (m_state' = "GameOver" <=> m_player'.health <= 0)
       /\ (m_state # "GameOver" /\ m_state' = "GameOver") =>
             /\ m_player # NULL /\ m_player.health > 0
             /\ last'.op = "handleMovement"
             /\ \E k \in 1 .. Len(last'.msgs) :
                   /\ last'.msgs[k].kind = "hits you"
                   /\ m_player'.health = m_player.health - last'.msgs[k].n
      ]_vars

\* C19 witness: the player has been slain in the last turn, and the session
\* is over.
C19_Witness ==
    /\ m_player # NULL /\ m_player.health <= 0 /\ m_state = "GameOver"
    /\ last.op = "handleMovement" /\ last.hit # 0 /\ Len(last.msgs) = 3
    /\ last.msgs[3].kind = "You have been slain"

\* The enemies of seq without the one at index k.
Without(seq, k) == SubSeq(seq, 1, k - 1) \o SubSeq(seq, k + 1, Len(seq))

\* C20: an update tick removes at most one enemy: if some enemy has health
\* 0 or less, exactly the first such enemy in set order is removed; an enemy
\* with health above 0 is never removed; the remaining enemies keep their
\* order and stats; player, map and message log are unchanged.
C20_UpdateRemovesFirstDead ==
    [][Update =>
          LET dead == { i \in 1 .. Len(m_enemies) : m_enemies[i].health <= 0 }
          IN /\ Len(m_enemies') >= Len(m_enemies) - 1
             /\ IF dead = {}
                THEN m_enemies' = m_enemies
                ELSE \E k \in dead :
                        /\ \A i \in dead : k <= i
                        /\ m_enemies' = Without(m_enemies, k)
             /\ \A i \in 1 .. Len(m_enemies) :
                   m_enemies[i].health > 0 =>
                      \E j \in 1 .. Len(m_enemies') : m_enemies'[j] = m_enemies[i]
             /\ UNCHANGED <<m_player, m_map, m_messages>>
      ]_vars

\* C20 witness: the enemy killed in the last turn has been removed by an
\* update while another enemy with health 0 is still in the set, behind a
\* living one.
C20_Witness ==
    /\ last.op = "handleMovement" /\ last.hit # 0 /\ last.hitHealth <= 0
    /\ \A j \in 1 .. Len(m_enemies) : m_enemies[j].id # last.hit
    /\ \E i, j \in 1 .. Len(m_enemies) :
          i < j /\ m_enemies[i].health > 0 /\ m_enemies[j].health <= 0

====
